---- MODULE Spec2Model ----
(***************************************************************************)
(* Model of src/midi_processor.py: the MidiProcessor pipeline              *)
(*   process_tracks -> setup_variables -> beats_by_instrument ->           *)
(*   {count_instruments_by_beat, create_timelines}                         *)
(* and of the script entry point (the __main__ block).                     *)
(*                                                                         *)
(* A python dict is modelled as the sequence of its items in insertion     *)
(* order (self.beats, self.ordered_beats) or, where the order is only the  *)
(* order of printing, as a function (self.instruments).  The key           *)
(* str(note) of self.instruments is injective in the note and is read back *)
(* with int(); the model keys the function by the note.                    *)
(* set_tempo and time_signature messages only write tempo, bpm, numerator  *)
(* and denominator, which nothing modelled here reads; they are messages   *)
(* of type "other" whose delta time is accumulated like any other.         *)
(***************************************************************************)
EXTENDS Integers, Sequences, FiniteSets

\* ---------------------------------------------------------------- bounds
MaxMsgs == 3
MaxTracks == 2

Notes == {36, 38}
Times == {0, 1}
TicksPerBeatValues == {6, 12, 24}

\* ------------------------------------------------------- input messages
NoteOn(t, n, v, c) ==
    [type |-> "note_on", time |-> t, note |-> n, velocity |-> v, channel |-> c]

Other(t) ==
    [type |-> "other", time |-> t, note |-> 0, velocity |-> 0, channel |-> 0]

\* attacks of both notes on channel 9, a note_on of velocity 0, a note_on of
\* another channel, and a message of another type
Msgs ==
    {NoteOn(t, n, 64, 9) : t \in Times, n \in Notes}
      \cup {NoteOn(1, 36, 0, 9), NoteOn(1, 38, 64, 0), Other(1)}

RECURSIVE SumTo(_, _)
SumTo(f, i) == IF i = 0 THEN 0 ELSE f[i] + SumTo(f, i - 1)

\* the file whose k tracks are the consecutive pieces, of lengths lens, of flat
SplitTracks(flat, lens) ==
    [i \in DOMAIN lens |-> SubSeq(flat, SumTo(lens, i - 1) + 1, SumTo(lens, i))]

\* the files of at most MaxTracks non-empty tracks and MaxMsgs messages in
\* all, and the file of one empty track
SmallFiles ==
    {<< <<>> >>} \cup
    UNION { UNION { { SplitTracks(flat, lens) :
                        lens \in {l \in [1 .. k -> 1 .. n] : SumTo(l, k) = n} } :
                    flat \in [1 .. n -> Msgs] } :
            n \in 1 .. MaxMsgs, k \in 1 .. MaxTracks }

\* the files of the scenarios
ScenarioA == << <<NoteOn(0, 36, 64, 9), NoteOn(480, 36, 64, 9),
                  NoteOn(480, 36, 64, 9), Other(480)>> >>
ScenarioB == << <<NoteOn(100, 36, 64, 9), NoteOn(0, 38, 64, 9),
                  NoteOn(0, 36, 64, 9)>> >>
ScenarioC == << <<NoteOn(0, 36, 64, 9), NoteOn(500, 36, 64, 9),
                  NoteOn(0, 38, 64, 9)>> >>

Inputs ==
    {[tpb |-> p, file |-> f] : p \in TicksPerBeatValues, f \in SmallFiles}
      \cup {[tpb |-> 480, file |-> f] : f \in {ScenarioA, ScenarioB, ScenarioC}}

VARIABLES
    tracks,            \* self.mid.tracks
    ticks_per_beat,    \* self.ticks_per_beat
    pc,                \* position of the run
    ti,                \* index of the track being read (i of line 33, 1-based)
    mi,                \* messages of that track already read (j of line 35)
    abs_time_counter,  \* self.abs_time_counter
    beats,             \* self.beats, items in insertion order
    max_track_len,     \* self.max_track_len
    ordered_beats,     \* self.ordered_beats, items in iteration order
    instruments,       \* self.instruments
    stats,             \* what count_instruments_by_beat computed, <<>> before
    printed            \* what create_timelines printed, <<>> before

vars == <<tracks, ticks_per_beat, pc, ti, mi, abs_time_counter, beats,
          max_track_len, ordered_beats, instruments, stats, printed>>

\* __init__, lines 19-30: the fields of the processor of the file in.file
Constructed(in) ==
    /\ tracks = in.file
    /\ ticks_per_beat = in.tpb
    /\ ti = 1
    /\ mi = 0
    /\ abs_time_counter = 0
    /\ beats = <<>>
    /\ max_track_len = 0
    /\ ordered_beats = <<>>
    /\ instruments = <<>>
    /\ stats = <<>>
    /\ printed = <<>>

Init == \E in \in Inputs : Constructed(in) /\ pc = "track_start"

\* ------------------------------------------------------- process_tracks
Qualifies(m) == m.velocity > 0 /\ m.channel = 9

TickIndex(b, t) == {i \in DOMAIN b : b[i].tick = t}

\* always appends to the list of the tick
InsertAttackNoDedup(b, t, m) ==
    IF TickIndex(b, t) = {}
    THEN Append(b, [tick |-> t, events |-> <<m>>])
    ELSE LET i == CHOOSE x \in TickIndex(b, t) : TRUE
         IN [b EXCEPT ![i].events = Append(@, m)]

InsertAttack(b, t, m) ==
    IF TickIndex(b, t) = {}
    THEN Append(b, [tick |-> t, events |-> <<m>>])
    ELSE LET i == CHOOSE x \in TickIndex(b, t) : TRUE
             notes == SelectSeq(b[i].events, LAMBDA e : e.note = m.note)
         IN IF Len(notes) = 0
            THEN [b EXCEPT ![i].events = Append(@, m)]
            ELSE b

\* accumulates the delta times of the note_on messages only
AdvanceOnNoteOn(counter, m) ==
    IF m.type = "note_on" THEN counter + m.time ELSE counter

Advance(counter, m) == counter + m.time

TrackStart ==
    /\ pc = "track_start"
    /\ ti <= Len(tracks)
    /\ abs_time_counter' = 0
    /\ mi' = 0
    /\ pc' = "messages"
    /\ UNCHANGED <<tracks, ticks_per_beat, ti, beats, max_track_len,
                   ordered_beats, instruments, stats, printed>>

ReadMessage ==
    /\ pc = "messages"
    /\ mi < Len(tracks[ti])
    /\ LET m == tracks[ti][mi + 1]
           t == Advance(abs_time_counter, m)
       IN /\ abs_time_counter' = t
          /\ beats' = IF m.type = "note_on" /\ Qualifies(m)
                      THEN InsertAttack(beats, t, m)
                      ELSE beats
    /\ mi' = mi + 1
    /\ UNCHANGED <<tracks, ticks_per_beat, pc, ti, max_track_len,
                   ordered_beats, instruments, stats, printed>>

\* keeps the length of the last track
LastTrackLen(len, counter) == counter

NewMaxTrackLen(len, counter) == IF counter > len THEN counter ELSE len

TrackEnd ==
    /\ pc = "messages"
    /\ mi = Len(tracks[ti])
    /\ max_track_len' = NewMaxTrackLen(max_track_len, abs_time_counter)
    /\ ti' = ti + 1
    /\ pc' = "track_start"
    /\ UNCHANGED <<tracks, ticks_per_beat, mi, abs_time_counter, beats,
                   ordered_beats, instruments, stats, printed>>

ProcessTracksReturn ==
    /\ pc = "track_start"
    /\ ti > Len(tracks)
    /\ pc' = "scanned"
    /\ UNCHANGED <<tracks, ticks_per_beat, ti, mi, abs_time_counter, beats,
                   max_track_len, ordered_beats, instruments, stats, printed>>

\* ------------------------------------------- the caller, lines 183-190
NoBeatsFound ==
    /\ pc = "scanned"
    /\ ~(Len(beats) > 0)
    /\ pc' = "no_beats"
    /\ UNCHANGED <<tracks, ticks_per_beat, ti, mi, abs_time_counter, beats,
                   max_track_len, ordered_beats, instruments, stats, printed>>

\* ------------------------------------------------------ setup_variables
\* keeps the insertion order of the dict
InsertionOrder(b) == b

\* sorted(self.beats.items()): the keys are distinct, so the order is the
\* order of the ticks
RECURSIVE SortedItems(_)
SortedItems(b) ==
    IF b = <<>> THEN <<>>
    ELSE LET i == CHOOSE x \in DOMAIN b :
                      \A y \in DOMAIN b : b[x].tick <= b[y].tick
             rest == [j \in 1 .. Len(b) - 1 |-> IF j < i THEN b[j] ELSE b[j + 1]]
         IN <<b[i]>> \o SortedItems(rest)

setup_variables ==
    /\ pc = "scanned"
    /\ Len(beats) > 0
    /\ ordered_beats' = SortedItems(beats)
    /\ pc' = "beats_by_instrument"
    /\ UNCHANGED <<tracks, ticks_per_beat, ti, mi, abs_time_counter, beats,
                   max_track_len, instruments, stats, printed>>

\* -------------------------------------------------- beats_by_instrument
\* lines 67-70: one event of the list of one tick
AddAttack(inst, note, tick) ==
    IF note \in DOMAIN inst
    THEN [inst EXCEPT ![note] = Append(@, tick)]
    ELSE [n \in DOMAIN inst \cup {note} |->
            IF n = note THEN <<tick>> ELSE inst[n]]

RECURSIVE AddEvents(_, _, _)
AddEvents(inst, events, tick) ==
    IF events = <<>> THEN inst
    ELSE AddEvents(AddAttack(inst, Head(events).note, tick), Tail(events), tick)

RECURSIVE BeatsByInstrument(_, _)
BeatsByInstrument(inst, ob) ==
    IF ob = <<>> THEN inst
    ELSE BeatsByInstrument(AddEvents(inst, Head(ob).events, Head(ob).tick),
                           Tail(ob))

beats_by_instrument ==
    /\ pc = "beats_by_instrument"
    /\ instruments' = BeatsByInstrument(instruments, ordered_beats)
    /\ pc' = "ready"
    /\ UNCHANGED <<tracks, ticks_per_beat, ti, mi, abs_time_counter, beats,
                   max_track_len, ordered_beats, stats, printed>>

\* -------------------------------------------- count_instruments_by_beat
\* len(self.instruments)
NumInstruments(inst) == Cardinality(DOMAIN inst)

RECURSIVE Gcd(_, _)
Gcd(a, b) == IF b = 0 THEN a ELSE Gcd(b, a % b)

\* float(a) / float(b) for b > 0: the value of the quotient, as the
\* fraction in lowest terms <<numerator, denominator>>
Quotient(a, b) == <<a \div Gcd(a, b), b \div Gcd(a, b)>>

\* the sum of an integer and a quotient
Plus(k, q) == Quotient(k * q[2] + q[1], q[2])

\* seeds the minimum like the maximum
SeedOne(inst) == 1

\* lines 73-76
MinSeed(inst) == NumInstruments(inst)

Seed(inst) ==
    [inst_sum |-> 0, binary_sum |-> 0,
     max_instruments_at_once |-> 1,
     min_instruments_at_once |-> MinSeed(inst)]

\* lines 85-92
CountBeat(acc, inst_list) ==
    LET inst_count == Len(inst_list)
    IN [inst_sum |-> acc.inst_sum + inst_count,
        binary_sum |-> IF inst_count >= 2 THEN acc.binary_sum + 1
                       ELSE acc.binary_sum,
        max_instruments_at_once |->
            IF inst_count > acc.max_instruments_at_once THEN inst_count
            ELSE acc.max_instruments_at_once,
        min_instruments_at_once |->
            IF inst_count < acc.min_instruments_at_once THEN inst_count
            ELSE acc.min_instruments_at_once]

RECURSIVE CountBeats(_, _)
CountBeats(acc, ob) ==
    IF ob = <<>> THEN acc
    ELSE CountBeats(CountBeat(acc, Head(ob).events), Tail(ob))

\* lines 95-96
ArithMean(acc, ob) == Quotient(acc.inst_sum, Len(ob))

\* adds the fraction to the maximum
BinMeanFromMax(acc, ob) ==
    Plus(acc.max_instruments_at_once, Quotient(acc.binary_sum, Len(ob)))

\* lines 100-101
BinMean(acc, ob) ==
    Plus(acc.min_instruments_at_once, Quotient(acc.binary_sum, Len(ob)))

ReturnData(mean_type, num_insts, mean_value) ==
    [mean_type |-> mean_type, num_insts |-> num_insts,
     mean_value |-> mean_value]

count_instruments_by_beat ==
    /\ pc = "ready"
    /\ stats = <<>>
    /\ LET acc == CountBeats(Seed(instruments), ordered_beats)
       IN stats' = [locals |-> acc,
                    means |-> <<ReturnData("am", NumInstruments(instruments),
                                           ArithMean(acc, ordered_beats)),
                                ReturnData("bm", NumInstruments(instruments),
                                           BinMean(acc, ordered_beats))>>]
    /\ UNCHANGED <<tracks, ticks_per_beat, pc, ti, mi, abs_time_counter, beats,
                   max_track_len, ordered_beats, instruments, printed>>

\* ----------------------------------------------------- create_timelines
\* line 114: ceil(float(attack_time) / (float(ticks_per_beat) / 12.0)).
\* For the values of ticks_per_beat used here (6, 12, 24, 480) the divisor
\* 0.5, 1.0, 2.0, 40.0 is exact and the result is the integer ceiling of
\* 12 * attack_time / ticks_per_beat.
get_tubs_placement(attack_time) ==
    (12 * attack_time + ticks_per_beat - 1) \div ticks_per_beat

Dots(n) == [k \in 1 .. n |-> "."]

\* fills from the slot of the previous tick on
GapFillFromPrev(tubs_prev_tick, tubs_tick) ==
    IF tubs_tick > tubs_prev_tick
    THEN Dots(tubs_tick - tubs_prev_tick)
    ELSE <<>>

\* lines 135-136: for _ in range(tubs_prev_tick + 1, tubs_tick)
GapFill(tubs_prev_tick, tubs_tick) ==
    IF tubs_tick > tubs_prev_tick + 1
    THEN Dots(tubs_tick - tubs_prev_tick - 1)
    ELSE <<>>

\* lines 138-141
Mark(tubs_prev_tick, tubs_tick, tick) ==
    IF tubs_prev_tick = tubs_tick /\ tick > 0 THEN <<>> ELSE <<"X">>

\* keeps tick 0 as the previous tick
SameTick(tick) == tick

\* lines 143-146
PrevTickAfter(tick) == IF tick = 0 THEN tick + 1 ELSE tick

\* lines 131-146, acc = [prev_tick, tubs]
RECURSIVE RenderTicks(_, _)
RenderTicks(acc, beats_ticks) ==
    IF beats_ticks = <<>> THEN acc
    ELSE LET tick == Head(beats_ticks)
             tubs_tick == get_tubs_placement(tick)
             tubs_prev_tick == get_tubs_placement(acc.prev_tick)
         IN RenderTicks(
               [prev_tick |-> PrevTickAfter(tick),
                tubs |-> acc.tubs \o GapFill(tubs_prev_tick, tubs_tick)
                                  \o Mark(tubs_prev_tick, tubs_tick, tick)],
               Tail(beats_ticks))

\* lines 150-153
TrailingFill(prev_tick) ==
    IF get_tubs_placement(prev_tick) < get_tubs_placement(max_track_len)
    THEN Dots(get_tubs_placement(max_track_len) - get_tubs_placement(prev_tick))
    ELSE <<>>

\* lines 125-157: what is printed for one instrument
Timeline(beats_ticks) ==
    LET acc == RenderTicks([prev_tick |-> 0, tubs |-> <<>>], beats_ticks)
        tubs == acc.tubs \o TrailingFill(acc.prev_tick)
    IN [tubs |-> tubs,
        range |-> <<get_tubs_placement(acc.prev_tick),
                    get_tubs_placement(max_track_len)>>,
        length |-> Len(tubs)]

create_timelines ==
    /\ pc = "ready"
    /\ printed = <<>>
    /\ printed' = [i \in DOMAIN instruments |-> Timeline(instruments[i])]
    /\ UNCHANGED <<tracks, ticks_per_beat, pc, ti, mi, abs_time_counter, beats,
                   max_track_len, ordered_beats, instruments, stats>>

\* ------------------------------------------------- the script, line 181
\* MidiProcessor(args.file, args.file.split('/')[-1], strftime(...)) passes
\* three arguments to __init__(self, midi_file_path, runtime): the call
\* raises TypeError and the script ends there.
InitMain == \E in \in Inputs : Constructed(in) /\ pc = "main"

MainConstruct ==
    /\ pc = "main"
    /\ pc' = "TypeError"
    /\ UNCHANGED <<tracks, ticks_per_beat, ti, mi, abs_time_counter, beats,
                   max_track_len, ordered_beats, instruments, stats, printed>>

NextMain == MainConstruct

SpecMain == InitMain /\ [][NextMain]_vars

Next ==
    \/ TrackStart \/ ReadMessage \/ TrackEnd \/ ProcessTracksReturn
    \/ NoBeatsFound \/ setup_variables \/ beats_by_instrument
    \/ count_instruments_by_beat \/ create_timelines

Spec == Init /\ [][Next]_vars

\* =================================================== properties checked
MaxOf(S) == CHOOSE x \in S : \A y \in S : y <= x
MinOf(S) == CHOOSE x \in S : \A y \in S : x <= y

Scanned == pc \in {"scanned", "no_beats", "beats_by_instrument", "ready"}

\* the number of messages of track i that process_tracks has read so far
Consumed(i) ==
    IF pc \in {"main", "TypeError"} THEN 0
    ELSE IF i < ti THEN Len(tracks[i])
    ELSE IF i = ti /\ pc = "messages" THEN mi
    ELSE 0

\* the sum of the delta times of the first j messages of track i
RECURSIVE TickAt(_, _)
TickAt(i, j) == IF j = 0 THEN 0 ELSE TickAt(i, j - 1) + tracks[i][j].time

IsAttack(m) == m.type = "note_on" /\ m.velocity > 0 /\ m.channel = 9

\* the (tick, note) pairs of the qualifying attacks read so far
ExpectedPairs ==
    UNION {{<<TickAt(i, j), tracks[i][j].note>> :
               j \in {x \in 1 .. Consumed(i) : IsAttack(tracks[i][x])}} :
           i \in DOMAIN tracks}

\* the (tick, note) pairs stored in beats
StoredPairs ==
    UNION {{<<beats[k].tick, beats[k].events[e].note>> :
               e \in DOMAIN beats[k].events} : k \in DOMAIN beats}

TrackLengths == {TickAt(i, Len(tracks[i])) : i \in DOMAIN tracks}

\* the statistics of section 4.4, computed from beats
BeatCount == Cardinality({beats[k].tick : k \in DOMAIN beats})
Concurrency(k) == Len(beats[k].events)
RECURSIVE InstSumTo(_)
InstSumTo(k) == IF k = 0 THEN 0 ELSE Concurrency(k) + InstSumTo(k - 1)
InstSum == InstSumTo(Len(beats))
BinarySum == Cardinality({k \in DOMAIN beats : Concurrency(k) >= 2})
DistinctInstruments == {p[2] : p \in StoredPairs}
TrueMinConcurrent == MinOf({Concurrency(k) : k \in DOMAIN beats})

\* the ticks, in the iteration order of ordered_beats, at which note n attacks
TicksOf(n) ==
    LET hit == SelectSeq(ordered_beats,
                   LAMBDA item : \E e \in DOMAIN item.events :
                                    item.events[e].note = n)
    IN [k \in DOMAIN hit |-> hit[k].tick]

StrictlyAscending(s) == \A a, b \in DOMAIN s : a < b => s[a] < s[b]

Slot(t) == IF get_tubs_placement(t) > 1 THEN get_tubs_placement(t) ELSE 1

\* ------------------------------------------------------------------ C2
DedupInv ==
    /\ \A k, l \in DOMAIN beats : k # l => beats[k].tick # beats[l].tick
    /\ \A k \in DOMAIN beats :
          /\ Len(beats[k].events) > 0
          /\ \A a, b \in DOMAIN beats[k].events :
                a # b => beats[k].events[a].note # beats[k].events[b].note

\* the next message is a qualifying attack whose (tick, note) is stored
NextIsRepeat ==
    /\ pc = "messages"
    /\ mi < Len(tracks[ti])
    /\ IsAttack(tracks[ti][mi + 1])
    /\ <<abs_time_counter + tracks[ti][mi + 1].time, tracks[ti][mi + 1].note>>
          \in StoredPairs

ScenarioBResult ==
    (tracks = ScenarioB /\ Scanned) =>
        /\ Len(beats) = 1
        /\ beats[1].tick = 100
        /\ Len(beats[1].events) = 2
        /\ beats[1].events[1].note = 36
        /\ beats[1].events[2].note = 38

\* C2: after every prefix of the messages, every tick of beats has a
\* non-empty list without two events of one note; a qualifying attack whose
\* (tick, note) is already stored leaves beats unchanged; in scenario B the
\* list of tick 100 has exactly the two entries 36 and 38.
C2_Dedup ==
    /\ [](DedupInv /\ ScenarioBResult)
    /\ [][NextIsRepeat => beats' = beats]_vars

\* a repeated attack of an earlier track was read and dropped
C2_Witness ==
    /\ pc = "messages"
    /\ ti = 2
    /\ mi > 0
    /\ IsAttack(tracks[2][mi])
    /\ \E j \in DOMAIN tracks[1] :
          /\ IsAttack(tracks[1][j])
          /\ tracks[1][j].note = tracks[2][mi].note
          /\ TickAt(1, j) = TickAt(2, mi)
    /\ \E k \in DOMAIN beats :
          beats[k].tick = abs_time_counter /\ Len(beats[k].events) = 2

\* ------------------------------------------------------------------ C6
\* C6: after process_tracks, the (tick, note) pairs of beats are exactly
\* those of the note_on messages with velocity > 0 and channel 9, the tick
\* being the sum of the delta times of all messages of the same track up
\* to and including that message.
C6_StoredAttacks == Scanned => StoredPairs = ExpectedPairs

\* a second track whose attack follows a non-qualifying message with a
\* positive delta time, after a first track that ended at a positive tick
C6_Witness ==
    /\ Scanned
    /\ Len(tracks) = 2
    /\ Len(tracks[2]) = 2
    /\ TickAt(1, Len(tracks[1])) > 0
    /\ ~IsAttack(tracks[2][1])
    /\ tracks[2][1].type = "note_on"
    /\ tracks[2][1].time > 0
    /\ IsAttack(tracks[2][2])
    /\ <<TickAt(2, 2), tracks[2][2].note>> \in StoredPairs

\* ------------------------------------------------------------------ C7
\* C7: after process_tracks, max_track_len is the maximum over all tracks
\* of the sum of the delta times of the track, and is at least every tick
\* of beats.
C7_MaxTrackLen ==
    Scanned =>
        /\ max_track_len = MaxOf(TrackLengths \cup {0})
        /\ \A k \in DOMAIN beats : beats[k].tick <= max_track_len

\* the last track is shorter than an earlier one
C7_Witness ==
    /\ Scanned
    /\ Len(tracks) = 2
    /\ TickAt(2, Len(tracks[2])) < TickAt(1, Len(tracks[1]))
    /\ max_track_len = TickAt(1, Len(tracks[1]))
    /\ beats # <<>>

\* ------------------------------------------------------------------ C3
\* C3: once process_tracks, setup_variables and beats_by_instrument have
\* run, the timeline of every instrument is strictly ascending and is the
\* sequence, in the iteration order of ordered_beats, of the ticks whose
\* list holds the note of the instrument.
C3_Timelines ==
    pc = "ready" =>
        /\ DOMAIN instruments = DistinctInstruments
        /\ \A n \in DOMAIN instruments :
              /\ StrictlyAscending(instruments[n])
              /\ instruments[n] = TicksOf(n)

\* a later track inserted an earlier tick: beats is not in tick order
C3_Witness ==
    /\ pc = "ready"
    /\ Len(beats) >= 2
    /\ beats[1].tick > beats[2].tick
    /\ \E n \in DOMAIN instruments : Len(instruments[n]) >= 2

\* ------------------------------------------------------------------ C5
IsQuotient(v, a, b) == v[2] > 0 /\ v[1] * b = a * v[2]

C10_MinConcurrent ==
    stats # <<>> =>
        /\ \A k \in DOMAIN beats :
              1 <= Concurrency(k) /\ Concurrency(k) <= NumInstruments(instruments)
        /\ stats.locals.min_instruments_at_once = TrueMinConcurrent

\* every beat has all the instruments: the minimum is the seed
C10_Witness ==
    /\ stats # <<>>
    /\ NumInstruments(instruments) = 2
    /\ \A k \in DOMAIN beats : Concurrency(k) = 2
    /\ stats.locals.min_instruments_at_once = 2

\* ------------------------------------------------------------------ C1
ScenarioARun == tracks = ScenarioA /\ ticks_per_beat = 480 /\ printed # <<>>

\* C1 as stated: in scenario A (ticks_per_beat 480, timeline [0, 480, 960],
\* max_track_len 1440) the string is 'X' and eleven '.' three times, with
\* marks at the 0-based indexes 0, 12, 24, and the reported range is 0-36.
C1_AsStated ==
    ScenarioARun =>
        /\ printed[36].tubs =
              [k \in 1 .. 36 |-> IF k \in {1, 13, 25} THEN "X" ELSE "."]
        /\ printed[36].range = <<0, 36>>

\* C1 as amended: in scenario A the string is 'X', ten '.', 'X', eleven '.',
\* 'X', twelve '.': length 36 with marks at the 0-based indexes 0, 11, 23,
\* and the reported range is 24-36.
C1_ScenarioA ==
    ScenarioARun =>
        /\ instruments[36] = <<0, 480, 960>>
        /\ max_track_len = 1440
        /\ printed[36].tubs =
              [k \in 1 .. 36 |-> IF k \in {1, 12, 24} THEN "X" ELSE "."]
        /\ printed[36].length = 36
        /\ printed[36].range = <<24, 36>>

C1_Witness == ScenarioARun /\ DOMAIN printed = {36}

\* ------------------------------------------------------------------ C8
\* the positions of a rendered string and of the slots of its ticks
Positions(i) ==
    1 .. MaxOf({Len(printed[i].tubs)}
                 \cup {Slot(instruments[i][k]) : k \in DOMAIN instruments[i]})

MarkedAt(i, p) == p <= Len(printed[i].tubs) /\ printed[i].tubs[p] = "X"

DottedAt(i, p) == p <= Len(printed[i].tubs) /\ printed[i].tubs[p] = "."

HasAttackIn(i, p) ==
    \E k \in DOMAIN instruments[i] : Slot(instruments[i][k]) = p

\* C8: for every ticks_per_beat, the rendered string has 'X' at the 1-based
\* position p exactly when a tick t of the timeline has
\* max(get_tubs_placement(t), 1) = p, and '.' at every other position.
C8_MarksAtSlots ==
    printed # <<>> =>
        \A i \in DOMAIN printed : \A p \in Positions(i) :
            /\ MarkedAt(i, p) <=> HasAttackIn(i, p)
            /\ p <= Len(printed[i].tubs) =>
                  (DottedAt(i, p) <=> ~HasAttackIn(i, p))

\* ------------------------------------------------------------------ C9
\* C9: when ticks_per_beat >= 12 and max_track_len >= 1, every string that
\* create_timelines renders has length get_tubs_placement(max_track_len),
\* so all the strings of a run have the same length.
C9_SameLength ==
    (printed # <<>> /\ ticks_per_beat >= 12 /\ max_track_len >= 1) =>
        \A i \in DOMAIN printed :
            /\ Len(printed[i].tubs) = get_tubs_placement(max_track_len)
            /\ printed[i].length = get_tubs_placement(max_track_len)

\* two instruments, one starting at tick 0 and one whose last attack is in
\* the last slot, with a slot shared by two ticks
C9_Witness ==
    /\ printed # <<>>
    /\ ticks_per_beat = 24
    /\ max_track_len >= 2
    /\ DOMAIN printed = {36, 38}
    /\ \E i, j \in DOMAIN instruments :
          /\ i # j
          /\ instruments[i][1] = 0
          /\ instruments[j][1] > 0
          /\ get_tubs_placement(instruments[j][Len(instruments[j])])
                = get_tubs_placement(max_track_len)

\* ------------------------------------------------------------------ C4
NoQualifyingAttack ==
    \A i \in DOMAIN tracks : \A j \in DOMAIN tracks[i] : ~IsAttack(tracks[i][j])

\* C4: a run on a file without qualifying attack, once it ends, has
\* reported that no beats were found and returned normally, and it never
\* builds the timelines, computes the statistics or renders the strings.
C4_NoBeats ==
    NoQualifyingAttack =>
        /\ pc \in {"main", "track_start", "messages", "scanned", "no_beats"}
        /\ ordered_beats = <<>>
        /\ instruments = <<>>
        /\ stats = <<>>
        /\ printed = <<>>
====
